---- MODULE Spec2Model ----
(***************************************************************************)
(* Model of WireSections_to_FastHenry.py: the Wire_Sections parser, the    *)
(* geometry builder, the FastHenry deck writer and the main pipeline.      *)
(*                                                                         *)
(* Text is modelled as sequences of one-character strings, so that strip,  *)
(* split, lower, startswith, replace and the string order of Python are    *)
(* computed and not assumed.  Floats are modelled as signed decimal        *)
(* fixed-point numbers with 13 fractional digits (8 + 5), which is enough  *)
(* to tell the 1e-12 threshold of format_coord from its 8 printed digits.  *)
(***************************************************************************)
EXTENDS Integers, Sequences, FiniteSets, TLC

VARIABLES
    pc,          \* position of main()
    in_file,     \* the input file: [exists, lines] (raw lines, blank ones included)
    out_file,    \* the output file: [exists, data] (data: the lines written)
    opened,      \* TRUE once out_path.open("w") has run
    SECTION_WH,  \* the module-level override table: sequence of [name, w, h]
    units,       \* parse_wire_sections' first result
    sections,    \* parse_wire_sections' second result, in dict (insertion) order
    geometries,  \* build_section_geometries' result
    summary,     \* write_fasthenry_input's return value
    error,       \* the exception that ended the run, or "none"
    fpc,         \* position of the format_coord round trip
    fvalue,      \* its input value
    fforce,      \* its force_decimal flag
    ftext,       \* format_coord(fvalue, fforce)
    ftext2       \* format_coord(float(ftext), fforce)

vars ==
    <<pc, in_file, out_file, opened, SECTION_WH, units, sections, geometries,
      summary, error, fpc, fvalue, fforce, ftext, ftext2>>

-----------------------------------------------------------------------------
(* Bounds of the model.                                                    *)

\* Longest input file, in raw lines.
MaxLines == 4

\* Largest integer part of a value given to format_coord in SpecFormat.
MaxIntPart == 10

-----------------------------------------------------------------------------
(* Characters and strings.                                                 *)

Digits == <<"0", "1", "2", "3", "4", "5", "6", "7", "8", "9">>

Upper ==
    <<"A", "B", "C", "D", "E", "F", "G", "H", "I", "J", "K", "L", "M",
      "N", "O", "P", "Q", "R", "S", "T", "U", "V", "W", "X", "Y", "Z">>

Lower ==
    <<"a", "b", "c", "d", "e", "f", "g", "h", "i", "j", "k", "l", "m",
      "n", "o", "p", "q", "r", "s", "t", "u", "v", "w", "x", "y", "z">>

\* The characters of the model in code point order (Python compares str by
\* code point): space 32, + 43, comma 44, - 45, . 46, digits, = 61, A-Z, _ 95, a-z.
Alphabet ==
    <<" ", "+", ",", "-", ".">> \o Digits \o <<"=">> \o Upper \o <<"_">> \o Lower

Chars == {Alphabet[i] : i \in 1..Len(Alphabet)}

Ord == [c \in Chars |-> CHOOSE i \in 1..Len(Alphabet) : Alphabet[i] = c]

IsDigit(c) == \E i \in 1..Len(Digits) : Digits[i] = c

DigitValue(c) == (CHOOSE i \in 1..Len(Digits) : Digits[i] = c) - 1

\* str.lower() on one character.
LowerChar(c) ==
    IF \E i \in 1..Len(Upper) : Upper[i] = c
    THEN Lower[CHOOSE i \in 1..Len(Upper) : Upper[i] = c]
    ELSE c

\* str.lower()
StrLower(s) == [i \in 1..Len(s) |-> LowerChar(s[i])]

\* str.strip(): the only whitespace of the alphabet is the space.
RECURSIVE LStrip(_)
LStrip(s) == IF s # <<>> /\ Head(s) = " " THEN LStrip(Tail(s)) ELSE s

RECURSIVE RStripChar(_, _)
RStripChar(s, c) ==
    IF s # <<>> /\ s[Len(s)] = c THEN RStripChar(SubSeq(s, 1, Len(s) - 1), c) ELSE s

Strip(s) == RStripChar(LStrip(s), " ")

\* str.replace(old, new) for one-character old and new.
Replace(s, old, new) == [i \in 1..Len(s) |-> IF s[i] = old THEN new ELSE s[i]]

\* str.startswith(prefix)
StartsWith(s, prefix) ==
    Len(s) >= Len(prefix) /\ SubSeq(s, 1, Len(prefix)) = prefix

Contains(s, c) == \E i \in 1..Len(s) : s[i] = c

\* str.split(sep) for a one-character separator: always at least one field.
RECURSIVE Split(_, _)
Split(s, sep) ==
    IF ~Contains(s, sep) THEN <<s>>
    ELSE LET k == CHOOSE i \in 1..Len(s) :
                      s[i] = sep /\ \A j \in 1..(i - 1) : s[j] # sep
         IN  <<SubSeq(s, 1, k - 1)>> \o Split(SubSeq(s, k + 1, Len(s)), sep)

\* str.rsplit(sep, 1) of a string that contains sep: <<before, after>> the last sep.
RSplit1(s, sep) ==
    LET k == CHOOSE i \in 1..Len(s) :
                 s[i] = sep /\ \A j \in (i + 1)..Len(s) : s[j] # sep
    IN  <<SubSeq(s, 1, k - 1), SubSeq(s, k + 1, Len(s))>>

\* Python's < on str: lexicographic by code point, a proper prefix is smaller.
RECURSIVE StrLess(_, _)
StrLess(a, b) ==
    IF b = <<>> THEN FALSE
    ELSE IF a = <<>> THEN TRUE
    ELSE IF Head(a) # Head(b) THEN Ord[Head(a)] < Ord[Head(b)]
    ELSE StrLess(Tail(a), Tail(b))

\* Decimal digits of a natural number, and back.
RECURSIVE NatToStr(_)
NatToStr(n) ==
    IF n < 10 THEN <<Digits[n + 1]>>
    ELSE NatToStr(n \div 10) \o <<Digits[(n % 10) + 1]>>

RECURSIVE StrToNat(_)
StrToNat(s) ==
    IF s = <<>> THEN 0
    ELSE 10 * StrToNat(SubSeq(s, 1, Len(s) - 1)) + DigitValue(s[Len(s)])

AllDigits(s) == \A i \in 1..Len(s) : IsDigit(s[i])

\* n written with at least w digits, zero-padded on the left.
RECURSIVE ZeroPad(_, _)
ZeroPad(s, w) == IF Len(s) >= w THEN s ELSE ZeroPad(<<"0">> \o s, w)

\* s extended with zeros on the right to w characters.
RECURSIVE ZeroFill(_, _)
ZeroFill(s, w) == IF Len(s) >= w THEN s ELSE ZeroFill(s \o <<"0">>, w)

-----------------------------------------------------------------------------
(* Numbers: sign * (ip + hi * 1e-8 + lo * 1e-13), 0 <= hi < 1e8, 0 <= lo < 1e5. *)
(* neg with ip = hi = lo = 0 is the float -0.0.                            *)

Dec(neg, ip, hi, lo) == [neg |-> neg, ip |-> ip, hi |-> hi, lo |-> lo]

\* The digits f"{value:.8f}" prints after the point.
HiDigits == 8

\* The further digits the model keeps, to resolve values around 1e-12.
LoDigits == 5

\* The exponent of the threshold 1e-12.
EpsDigits == 12

HiUnit == 10 ^ HiDigits

LoUnit == 10 ^ LoDigits

LoHalf == LoUnit \div 2

\* abs(value) < 1e-12
BelowEps(v) == v.ip = 0 /\ v.hi = 0 /\ v.lo < 10 ^ (HiDigits + LoDigits - EpsDigits)

\* float(text) for a decimal literal: optional sign, digits, optional point
\* and digits (at least one digit in all).  Anything else over the alphabet of
\* the model raises ValueError (the alphabet's literals have no exponent, inf,
\* nan or digit-group underscore forms).
IsFloatLiteral(s) ==
    LET body == IF s # <<>> /\ Head(s) \in {"+", "-"} THEN Tail(s) ELSE s
        parts == Split(body, ".")
    IN  /\ Len(parts) <= 2
        /\ \A i \in 1..Len(parts) : AllDigits(parts[i])
        /\ \E i \in 1..Len(parts) : parts[i] # <<>>

Float(s) ==
    LET neg == s # <<>> /\ Head(s) = "-"
        body == IF s # <<>> /\ Head(s) \in {"+", "-"} THEN Tail(s) ELSE s
        parts == Split(body, ".")
        \* digits beyond the model's resolution are dropped
        frac == ZeroFill(IF Len(parts) = 2 THEN parts[2] ELSE <<>>, HiDigits + LoDigits)
    IN  Dec(neg, StrToNat(parts[1]),
            StrToNat(SubSeq(frac, 1, HiDigits)),
            StrToNat(SubSeq(frac, HiDigits + 1, HiDigits + LoDigits)))

\* f"{value:.8f}": correctly rounded to 8 decimals, sign kept (also on a value
\* that rounds to zero, and on -0.0).  No float lies exactly on a tie of the
\* 9th decimal, so lo = LoHalf stands for a value just above or just below it
\* and is left out of the inputs.
Fixed8(v) ==
    LET up == v.lo > LoHalf
        hi1 == IF up THEN v.hi + 1 ELSE v.hi
        ip1 == IF hi1 = HiUnit THEN v.ip + 1 ELSE v.ip
        hi2 == IF hi1 = HiUnit THEN 0 ELSE hi1
    IN  (IF v.neg THEN <<"-">> ELSE <<>>)
            \o NatToStr(ip1) \o <<".">> \o ZeroPad(NatToStr(hi2), HiDigits)

format_coord(value, force_decimal) ==
    LET v == IF BelowEps(value) THEN Dec(FALSE, 0, 0, 0) ELSE value
        t1 == RStripChar(RStripChar(Fixed8(v), "0"), ".")
        t2 == IF t1 = <<>> THEN <<"0">> ELSE t1
    IN  IF force_decimal /\ ~Contains(t2, ".") THEN t2 \o <<".", "0">> ELSE t2

-----------------------------------------------------------------------------
(* The parser.                                                             *)

SectionPrefix == <<"S", "e", "c", "t", "i", "o", "n", "-">>

MM == <<"M", "M">>

CM == <<"C", "M">>

M == <<"M">>

MillimeterSynonyms ==
    { <<"m", "m">>,
      <<"m", "i", "l", "l", "i", "m", "e", "t", "e", "r">>,
      <<"m", "i", "l", "l", "i", "m", "e", "t", "r", "e">> }

CentimeterSynonyms ==
    { <<"c", "m">>,
      <<"c", "e", "n", "t", "i", "m", "e", "t", "e", "r">>,
      <<"c", "e", "n", "t", "i", "m", "e", "t", "r", "e">> }

\* The lines kept by the reading loop: stripped, and dropped when empty.
RECURSIVE RetainedLines(_)
RetainedLines(raw) ==
    IF raw = <<>> THEN <<>>
    ELSE LET ln == Strip(Head(raw))
         IN  (IF ln # <<>> THEN <<ln>> ELSE <<>>) \o RetainedLines(Tail(raw))

\* ParseHeader without the reset of start_idx for a short file.
ParseHeader_NoShortFileReset(lines) ==
    LET first == StrLower(Strip(lines[1]))
        u == IF first \in CentimeterSynonyms THEN CM ELSE MM
        s0 == IF first \in MillimeterSynonyms \/ first \in CentimeterSynonyms
              THEN 2 ELSE 0
    IN  [units |-> u, start_idx |-> s0]

\* The units and the first index parsed as data, from the first retained line
\* and the number of retained lines.
ParseHeader(lines) ==
    LET first == StrLower(Strip(lines[1]))
        u == IF first \in CentimeterSynonyms THEN CM ELSE MM
        s0 == IF first \in MillimeterSynonyms \/ first \in CentimeterSynonyms
              THEN 2 ELSE 0
    IN  [units |-> u, start_idx |-> IF s0 >= Len(lines) THEN 0 ELSE s0]

\* parts = [p.strip() for p in line.split(",")]
LineParts(line) ==
    LET raw == Split(line, ",") IN [i \in 1..Len(raw) |-> Strip(raw[i])]

\* Whether the loop body appends a point for a line with these parts.
IsDataLine(parts) ==
    /\ Len(parts) >= 4
    /\ StartsWith(parts[1], SectionPrefix)
    /\ IsFloatLiteral(parts[2])
    /\ IsFloatLiteral(parts[3])
    /\ IsFloatLiteral(parts[4])

\* A row as appended: [None, x, y, z, line_number]; None is idx 0.
NewRow(parts, line_number) ==
    [idx |-> 0, x |-> Float(parts[2]), y |-> Float(parts[3]),
     z |-> Float(parts[4]), line |-> line_number]

HasSection(secs, name) == \E i \in 1..Len(secs) : secs[i].name = name

\* sections[sec_name].append(row), creating the key at its first use.
AppendRow(secs, name, row) ==
    IF HasSection(secs, name)
    THEN [i \in 1..Len(secs) |->
            IF secs[i].name = name
            THEN [secs[i] EXCEPT !.pts = Append(@, row)]
            ELSE secs[i]]
    ELSE Append(secs, [name |-> name, pts |-> <<row>>])

\* ParseLoop with a skipped line leaving line_number as it is.
RECURSIVE ParseLoop_SkipKeepsLineNumber(_, _, _, _, _)
ParseLoop_SkipKeepsLineNumber(lines, idx_in_list, start_idx, line_number, secs) ==
    IF idx_in_list >= Len(lines) THEN secs
    ELSE LET parts == LineParts(lines[idx_in_list + 1])
         IN  IF idx_in_list < start_idx \/ ~IsDataLine(parts)
             THEN ParseLoop_SkipKeepsLineNumber(lines, idx_in_list + 1, start_idx,
                                                line_number, secs)
             ELSE ParseLoop_SkipKeepsLineNumber(lines, idx_in_list + 1, start_idx,
                                                line_number + 1,
                                                AppendRow(secs, parts[1],
                                                          NewRow(parts, line_number)))

\* The for loop over enumerate(lines), from list index idx_in_list on.
RECURSIVE ParseLoop(_, _, _, _, _)
ParseLoop(lines, idx_in_list, start_idx, line_number, secs) ==
    IF idx_in_list >= Len(lines) THEN secs
    ELSE LET parts == LineParts(lines[idx_in_list + 1])
         IN  IF idx_in_list < start_idx \/ ~IsDataLine(parts)
             THEN ParseLoop(lines, idx_in_list + 1, start_idx, line_number + 1, secs)
             ELSE ParseLoop(lines, idx_in_list + 1, start_idx, line_number + 1,
                            AppendRow(secs, parts[1], NewRow(parts, line_number)))

\* for k, row in enumerate(pts, start=1): row[0] = k
AssignIndices(secs) ==
    [i \in 1..Len(secs) |->
        [secs[i] EXCEPT !.pts = [k \in 1..Len(@) |-> [@[k] EXCEPT !.idx = k]]]]

parse_wire_sections(raw) ==
    LET lines == RetainedLines(raw)
    IN  IF lines = <<>>
        THEN [err |-> "EmptyInput", units |-> MM, sections |-> <<>>]
        ELSE LET h == ParseHeader(lines)
             IN  [err |-> "none", units |-> h.units,
                  sections |-> AssignIndices(
                      ParseLoop(lines, 0, h.start_idx, 1, <<>>))]

-----------------------------------------------------------------------------
(* The geometry builder.                                                   *)

\* int(num) succeeds: optional sign, then digits, single underscores allowed
\* between digits (surrounding whitespace is ignored).
IsIntLiteral(s) ==
    LET t == Strip(s)
        body == IF t # <<>> /\ Head(t) \in {"+", "-"} THEN Tail(t) ELSE t
    IN  /\ body # <<>>
        /\ \A i \in 1..Len(body) : IsDigit(body[i]) \/ body[i] = "_"
        /\ IsDigit(body[1]) /\ IsDigit(body[Len(body)])
        /\ \A i \in 1..(Len(body) - 1) : ~(body[i] = "_" /\ body[i + 1] = "_")

IntValue(s) ==
    LET t == Strip(s)
        body == IF t # <<>> /\ Head(t) \in {"+", "-"} THEN Tail(t) ELSE t
        n == StrToNat(SelectSeq(body, IsDigit))
    IN  IF t # <<>> /\ Head(t) = "-" THEN -n ELSE n

\* The key tuple: (base, int) is [isint TRUE, num], (base, str) is [isint FALSE, str].
SortKey(base, isint, num, str) ==
    [base |-> base, isint |-> isint, num |-> num, str |-> str]

section_sort_key(sec_name) ==
    LET name == Strip(sec_name)
    IN  IF Contains(name, "-")
        THEN LET sp == RSplit1(name, "-")
                 base == Strip(sp[1])
                 num == Strip(sp[2])
             IN  IF IsIntLiteral(num)
                 THEN SortKey(base, TRUE, IntValue(num), <<>>)
                 ELSE SortKey(base, FALSE, 0, name)
        ELSE SortKey(<<>>, FALSE, 0, name)

\* Python's < on two key tuples raises TypeError when the first items are equal
\* and the second items are an int and a str.
KeyIncomparable(a, b) == a.base = b.base /\ a.isint # b.isint

\* Python's < on two comparable key tuples.
KeyLess(a, b) ==
    IF a.base # b.base THEN StrLess(a.base, b.base)
    ELSE IF a.isint THEN a.num < b.num
    ELSE StrLess(a.str, b.str)

\* sorted(..., key=section_sort_key) raises TypeError exactly when two of the
\* keys are incomparable: a comparison sort cannot order two items that are
\* adjacent in the key order without comparing them, and every item that
\* would lie between an int-keyed and a str-keyed item of one base has that
\* base too.
SortRaises(secs) ==
    \E i, j \in 1..Len(secs) :
        KeyIncomparable(section_sort_key(secs[i].name), section_sort_key(secs[j].name))

\* Insert e after every item whose key is not greater (sorted is stable).
RECURSIVE InsertByKey(_, _)
InsertByKey(sorted, e) ==
    IF sorted = <<>> THEN <<e>>
    ELSE IF KeyLess(section_sort_key(e.name), section_sort_key(Head(sorted).name))
         THEN <<e>> \o sorted
         ELSE <<Head(sorted)>> \o InsertByKey(Tail(sorted), e)

\* sorted(sections.keys(), key=section_sort_key), each key with its points.
RECURSIVE SortedSections(_)
SortedSections(secs) ==
    IF secs = <<>> THEN <<>>
    ELSE InsertByKey(SortedSections(SubSeq(secs, 1, Len(secs) - 1)), secs[Len(secs)])

\* sorted(pts, key=lambda row: row[0] or 0), stable.
RECURSIVE InsertByIdx(_, _)
InsertByIdx(sorted, row) ==
    IF sorted = <<>> THEN <<row>>
    ELSE IF row.idx < Head(sorted).idx
         THEN <<row>> \o sorted
         ELSE <<Head(sorted)>> \o InsertByIdx(Tail(sorted), row)

RECURSIVE SortedPoints(_)
SortedPoints(pts) ==
    IF pts = <<>> THEN <<>>
    ELSE InsertByIdx(SortedPoints(SubSeq(pts, 1, Len(pts) - 1)), pts[Len(pts)])

NodeInfix == <<"_", "N", "o", "d", "e", "_">>

make_node_name(sec_name, idx) ==
    <<"N">> \o Replace(Strip(sec_name), " ", "_") \o NodeInfix \o NatToStr(idx)

\* ResolveWH that never looks into the table.
ResolveWH_DefaultsOnly(wh, sec_name, default_width, default_height) ==
    [w |-> default_width, h |-> default_height]

\* SECTION_WH.get(sec_name, (default_width, default_height))
ResolveWH(wh, sec_name, default_width, default_height) ==
    IF \E i \in 1..Len(wh) : wh[i].name = sec_name
    THEN LET e == wh[CHOOSE i \in 1..Len(wh) : wh[i].name = sec_name]
         IN  [w |-> e.w, h |-> e.h]
    ELSE [w |-> default_width, h |-> default_height]

\* The SectionGeometry of one section with at least one point.
SectionGeometry(sec, wh, default_width, default_height) ==
    LET pts_sorted == SortedPoints(sec.pts)
        d == ResolveWH(wh, sec.name, default_width, default_height)
        node_names == [k \in 1..Len(pts_sorted) |->
                          make_node_name(sec.name, pts_sorted[k].idx)]
    IN  [name |-> sec.name,
         nodes |-> [k \in 1..Len(pts_sorted) |->
                      [name |-> node_names[k], x |-> pts_sorted[k].x,
                       y |-> pts_sorted[k].y, z |-> pts_sorted[k].z]],
         segments |-> [k \in 1..(Len(node_names) - 1) |->
                         [start |-> node_names[k], end |-> node_names[k + 1],
                          w |-> d.w, h |-> d.h]],
         port |-> <<node_names[1], node_names[Len(node_names)]>>]

\* The for loop over the sorted sections: raises at the first section with
\* fewer than two points.
RECURSIVE BuildLoop(_, _, _, _, _)
BuildLoop(todo, wh, default_width, default_height, done) ==
    IF todo = <<>> THEN [err |-> "none", geometries |-> done]
    ELSE IF Len(Head(todo).pts) < 2
         THEN [err |-> "InsufficientPoints", geometries |-> <<>>]
         ELSE BuildLoop(Tail(todo), wh, default_width, default_height,
                        Append(done, SectionGeometry(Head(todo), wh,
                                                     default_width, default_height)))

RECURSIVE TotalSegments(_)
TotalSegments(geoms) ==
    IF geoms = <<>> THEN 0
    ELSE Len(Head(geoms).segments) + TotalSegments(Tail(geoms))

build_section_geometries(secs, wh, default_width, default_height) ==
    IF SortRaises(secs) THEN [err |-> "TypeError", geometries |-> <<>>]
    ELSE LET r == BuildLoop(SortedSections(secs), wh, default_width,
                            default_height, <<>>)
         IN  IF r.err # "none" THEN r
             ELSE IF TotalSegments(r.geometries) = 0
                  THEN [err |-> "NoSegments", geometries |-> <<>>]
                  ELSE r

-----------------------------------------------------------------------------
(* The deck writer.                                                        *)

UpperChar(c) ==
    IF \E i \in 1..Len(Lower) : Lower[i] = c
    THEN Upper[CHOOSE i \in 1..Len(Lower) : Lower[i] = c]
    ELSE c

\* str.upper()
StrUpper(s) == [i \in 1..Len(s) |-> UpperChar(s[i])]

units_to_sigma(u) ==
    LET up == StrUpper(u)
    IN  IF up = M THEN Dec(FALSE, 58000000, 0, 0)
        ELSE IF up = CM THEN Dec(FALSE, 580000, 0, 0)
        ELSE Dec(FALSE, 58000, 0, 0)

\* The options of main() at their argparse defaults; sigma <<>> is None.
DEFAULT_SEG_WIDTH == Dec(FALSE, 0, 25000000, 0)

DEFAULT_SEG_HEIGHT == Dec(FALSE, 0, 3500000, 0)

Args ==
    [trace_width |-> DEFAULT_SEG_WIDTH, trace_thickness |-> DEFAULT_SEG_HEIGHT,
     sigma |-> <<>>, fmin |-> Dec(FALSE, 1, 0, 0),
     fmax |-> Dec(FALSE, 1000000000, 0, 0), freq_decades |-> Dec(FALSE, 1, 0, 0),
     nhinc |-> 1, nwinc |-> 1, rh |-> 2, rw |-> 2]

\* write_line ending the line with a bare line feed.
write_line_LF(card, text, fields) ==
    [card |-> card, text |-> text, fields |-> fields, eol |-> "\n"]

\* What write_line(text) writes: the text, here its card kind, its literal
\* part and its formatted fields, and the terminator.  The file is opened with
\* newline="", so the terminator reaches the file as written.
write_line(card, text, fields) ==
    [card |-> card, text |-> text, fields |-> fields, eol |-> "\r\n"]

BlankLine == write_line("blank", "", <<>>)

RECURSIVE all_nodes(_)
all_nodes(geoms) ==
    IF geoms = <<>> THEN <<>> ELSE Head(geoms).nodes \o all_nodes(Tail(geoms))

RECURSIVE all_segments(_)
all_segments(geoms) ==
    IF geoms = <<>> THEN <<>> ELSE Head(geoms).segments \o all_segments(Tail(geoms))

ports(geoms) == [i \in 1..Len(geoms) |-> geoms[i].port]

\* Banner, .units, .default and the "* Nodes" heading.
HeaderLines(u, sigma, a) ==
    <<write_line("comment",
          "* FastHenry input file created using FreeCAD's ElectroMagnetic Workbench",
          <<>>),
      write_line("comment",
          "* See http://www.freecad.org, http://www.fastfieldsolvers.com and http://epc-co.com",
          <<>>),
      BlankLine,
      write_line("units", ".units", <<StrLower(u)>>),
      BlankLine,
      write_line("default", ".default sigma= nhinc= nwinc= rh= rw=",
          <<format_coord(sigma, TRUE), NatToStr(a.nhinc), NatToStr(a.nwinc),
            NatToStr(a.rh), NatToStr(a.rw)>>),
      BlankLine,
      write_line("comment", "* Nodes", <<>>)>>

NodeLines(nodes) ==
    [i \in 1..Len(nodes) |->
        write_line("node", "x= y= z=",
            <<nodes[i].name, format_coord(nodes[i].x, TRUE),
              format_coord(nodes[i].y, TRUE), format_coord(nodes[i].z, TRUE)>>)]

EFHSegment == <<"E", "F", "H", "S", "e", "g", "m", "e", "n", "t">>

\* The element name at seg_counter: bare at 0, then suffixed with {:03d}.
ElemName(seg_counter) ==
    IF seg_counter = 0 THEN EFHSegment
    ELSE EFHSegment \o ZeroPad(NatToStr(seg_counter), 3)

\* The segment loop with seg_counter set back to 0 at every segment that does
\* not continue the chain of the one before it, that is at each section.
RECURSIVE RestartingCounter(_, _)
RestartingCounter(segs, i) ==
    IF i = 1 \/ segs[i - 1].end # segs[i].start THEN 0
    ELSE RestartingCounter(segs, i - 1) + 1

SegmentLines_RestartPerSection(segs) ==
    <<BlankLine, write_line("comment", "* Segments", <<>>)>> \o
    [i \in 1..Len(segs) |->
        write_line("segment", "w= h=",
            <<ElemName(RestartingCounter(segs, i)), segs[i].start, segs[i].end,
              format_coord(segs[i].w, FALSE), format_coord(segs[i].h, FALSE)>>)]

SegmentLines(segs) ==
    <<BlankLine, write_line("comment", "* Segments", <<>>)>> \o
    [i \in 1..Len(segs) |->
        write_line("segment", "w= h=",
            <<ElemName(i - 1), segs[i].start, segs[i].end,
              format_coord(segs[i].w, FALSE), format_coord(segs[i].h, FALSE)>>)]

PortLines(ps) ==
    <<BlankLine, write_line("comment", "* Ports", <<>>)>> \o
    [i \in 1..Len(ps) |-> write_line("external", ".external", <<ps[i][1], ps[i][2]>>)]

TrailerLines(a) ==
    <<BlankLine,
      write_line("freq", ".freq fmin= fmax= ndec=",
          <<format_coord(a.fmin, TRUE), format_coord(a.fmax, TRUE),
            format_coord(a.freq_decades, TRUE)>>),
      BlankLine,
      write_line("end", ".end", <<>>)>>

\* Summary counting the segments where the nodes belong.
Summary_NodesAsSegments(geoms) ==
    [sections |-> Len(geoms), nodes |-> Len(all_segments(geoms)),
     segments |-> Len(all_segments(geoms)), ports |-> Len(ports(geoms))]

Summary(geoms) ==
    [sections |-> Len(geoms), nodes |-> Len(all_nodes(geoms)),
     segments |-> Len(all_segments(geoms)), ports |-> Len(ports(geoms))]

-----------------------------------------------------------------------------
(* The inputs.                                                             *)

Name2 == SectionPrefix \o <<"2">>

Name10 == SectionPrefix \o <<"1", "0">>

NameA_B == SectionPrefix \o <<"a", "_", "b">>

NameAB == SectionPrefix \o <<"a", " ", "b">>

Sep == <<",", " ">>

\* A raw line of each kind at position i of the file; a data line carries i
\* as its x, so the points of a file are pairwise different.
InputLine(kind, i) ==
    CASE kind = "mm" -> <<"m", "m">>
      [] kind = "cm" -> <<" ", "C", "M", " ">>
      [] kind = "blank" -> <<" ">>
      [] kind = "s2" -> Name2 \o Sep \o NatToStr(i) \o Sep \o <<"0">> \o Sep \o <<"0", ".", "5">>
      [] kind = "s10" ->
            Name10 \o <<",">> \o NatToStr(i) \o <<",", "-", "1", ",", "0", ",", "1">>
      [] kind = "sa_b" -> NameA_B \o Sep \o NatToStr(i) \o Sep \o <<"0">> \o Sep \o <<"0">>
      [] kind = "sab" -> NameAB \o Sep \o NatToStr(i) \o Sep \o <<"0">> \o Sep \o <<"0">>
      [] kind = "badrow" ->
            <<"B", "a", "d", "R", "o", "w">> \o Sep \o NatToStr(i) \o Sep \o <<"0">>
                \o Sep \o <<"0">>
      [] kind = "nonnum" ->
            Name2 \o Sep \o <<"n", "o", "t", "a", "n", "u", "m", "b", "e", "r">>
                \o Sep \o <<"0">> \o Sep \o <<"0">>

\* Files that exercise the parser: units lines, blank lines, malformed lines
\* and the lines of one section.  Past the first retained lines, "mm" and "cm"
\* are lines of one field, as a parameter line is.
ParserKinds == {"mm", "cm", "blank", "s2", "badrow", "nonnum"}

\* Files that exercise the builder and the writer: the lines of four sections
\* and a units line.
GeometryKinds == {"mm", "s2", "s10", "sa_b", "sab"}

FilesOver(kinds) ==
    UNION { { [i \in 1..n |-> InputLine(ks[i], i)] : ks \in [1..n -> kinds] }
            : n \in 0..MaxLines }

InputFiles == FilesOver(ParserKinds) \cup FilesOver(GeometryKinds)

\* The output path before the run: no file, or a deck left by an earlier run.
StaleDeck == <<write_line("comment", "* stale", <<>>)>>

NoOutFile == [exists |-> FALSE, data |-> <<>>]

OutFilesBefore == {NoOutFile, [exists |-> TRUE, data |-> StaleDeck]}

\* SECTION_WH: empty as shipped, or edited to hold one override as its comment shows.
OverrideTable ==
    <<[name |-> Name2, w |-> Dec(FALSE, 0, 30000000, 0), h |-> Dec(FALSE, 0, 7000000, 0)]>>

OverrideTables == {<<>>, OverrideTable}

NoValue == Dec(FALSE, 0, 0, 0)

NoSummary == [sections |-> 0, nodes |-> 0, segments |-> 0, ports |-> 0]

Init ==
    /\ pc = "start"
    /\ in_file \in {[exists |-> FALSE, lines |-> <<>>]}
                     \cup {[exists |-> TRUE, lines |-> f] : f \in InputFiles}
    /\ out_file \in OutFilesBefore
    /\ SECTION_WH \in OverrideTables
    /\ opened = FALSE
    /\ units = MM
    /\ sections = <<>>
    /\ geometries = <<>>
    /\ summary = NoSummary
    /\ error = "none"
    /\ fpc = "idle"
    /\ fvalue = NoValue
    /\ fforce = FALSE
    /\ ftext = <<>>
    /\ ftext2 = <<>>

-----------------------------------------------------------------------------
(* main().                                                                 *)

fvars == <<fpc, fvalue, fforce, ftext, ftext2>>

\* in_path.is_file()
MainCheckInput ==
    /\ pc = "start"
    /\ IF in_file.exists
       THEN pc' = "parse" /\ error' = error
       ELSE pc' = "failed" /\ error' = "MissingInput"
    /\ UNCHANGED <<in_file, out_file, opened, SECTION_WH, units, sections,
                   geometries, summary, fvars>>

\* units, sections = parse_wire_sections(in_path); if not sections: SystemExit
MainParse ==
    /\ pc = "parse"
    /\ LET r == parse_wire_sections(in_file.lines)
       IN  IF r.err # "none"
           THEN pc' = "failed" /\ error' = r.err /\ UNCHANGED <<units, sections>>
           ELSE /\ units' = r.units
                /\ sections' = r.sections
                /\ IF r.sections = <<>>
                   THEN pc' = "failed" /\ error' = "NoSections"
                   ELSE pc' = "build" /\ error' = error
    /\ UNCHANGED <<in_file, out_file, opened, SECTION_WH, geometries, summary, fvars>>

\* WriteBuild with the file opened before the geometries are built.
WriteBuild_OpenFirst ==
    /\ pc = "build"
    /\ out_file' = [exists |-> TRUE, data |-> <<>>]
    /\ opened' = TRUE
    /\ LET r == build_section_geometries(sections, SECTION_WH,
                                         Args.trace_width, Args.trace_thickness)
       IN  IF r.err # "none"
           THEN pc' = "failed" /\ error' = r.err /\ UNCHANGED geometries
           ELSE pc' = "open" /\ error' = error /\ geometries' = r.geometries
    /\ UNCHANGED <<in_file, SECTION_WH, units, sections, summary, fvars>>

\* write_fasthenry_input up to the open: the geometries are built first.
WriteBuild ==
    /\ pc = "build"
    /\ LET r == build_section_geometries(sections, SECTION_WH,
                                         Args.trace_width, Args.trace_thickness)
       IN  IF r.err # "none"
           THEN pc' = "failed" /\ error' = r.err /\ UNCHANGED geometries
           ELSE pc' = "open" /\ error' = error /\ geometries' = r.geometries
    /\ UNCHANGED <<in_file, out_file, opened, SECTION_WH, units, sections,
                   summary, fvars>>

\* out_path.open("w", ...): creates the file or truncates it.
WriteOpen ==
    /\ pc = "open"
    /\ out_file' = [exists |-> TRUE, data |-> <<>>]
    /\ opened' = TRUE
    /\ pc' = "header"
    /\ UNCHANGED <<in_file, SECTION_WH, units, sections, geometries, summary,
                   error, fvars>>

Resolved_sigma == IF Args.sigma = <<>> THEN units_to_sigma(StrUpper(units)) ELSE Args.sigma[1]

WriteHeader ==
    /\ pc = "header"
    /\ out_file' = [out_file EXCEPT
                       !.data = @ \o HeaderLines(StrUpper(units), Resolved_sigma, Args)]
    /\ pc' = "nodes"
    /\ UNCHANGED <<in_file, opened, SECTION_WH, units, sections, geometries,
                   summary, error, fvars>>

WriteNodes ==
    /\ pc = "nodes"
    /\ out_file' = [out_file EXCEPT !.data = @ \o NodeLines(all_nodes(geometries))]
    /\ pc' = "segments"
    /\ UNCHANGED <<in_file, opened, SECTION_WH, units, sections, geometries,
                   summary, error, fvars>>

WriteSegments ==
    /\ pc = "segments"
    /\ out_file' = [out_file EXCEPT !.data = @ \o SegmentLines(all_segments(geometries))]
    /\ pc' = "ports"
    /\ UNCHANGED <<in_file, opened, SECTION_WH, units, sections, geometries,
                   summary, error, fvars>>

WritePorts ==
    /\ pc = "ports"
    /\ out_file' = [out_file EXCEPT !.data = @ \o PortLines(ports(geometries))]
    /\ pc' = "trailer"
    /\ UNCHANGED <<in_file, opened, SECTION_WH, units, sections, geometries,
                   summary, error, fvars>>

\* .freq, .end, the file is closed and the summary returned.
WriteTrailer ==
    /\ pc = "trailer"
    /\ out_file' = [out_file EXCEPT !.data = @ \o TrailerLines(Args)]
    /\ summary' = Summary(geometries)
    /\ pc' = "done"
    /\ UNCHANGED <<in_file, opened, SECTION_WH, units, sections, geometries,
                   error, fvars>>

Next ==
    \/ MainCheckInput
    \/ MainParse
    \/ WriteBuild
    \/ WriteOpen
    \/ WriteHeader
    \/ WriteNodes
    \/ WriteSegments
    \/ WritePorts
    \/ WriteTrailer

Spec == Init /\ [][Next]_vars

-----------------------------------------------------------------------------
(* format_coord on its own: a value is formatted, the text is read back    *)
(* with float() and formatted again with the same flag.                    *)

\* Fractions of the inputs: the 8 printed digits and the 5 below them, around
\* the 1e-12 threshold and away from the rounding tie.
HiSamples == {0, 1, 10, 25000000, HiUnit - 1}

LoSamples == {0, 1, 9, 10, LoHalf - 1, LoHalf + 1, LoUnit - 1}

FormatValues ==
    { Dec(neg, ip, hi, lo) :
        neg \in BOOLEAN, ip \in 0..MaxIntPart, hi \in HiSamples, lo \in LoSamples }

pvars ==
    <<pc, in_file, out_file, opened, SECTION_WH, units, sections, geometries,
      summary, error>>

InitFormat ==
    /\ pc = "idle"
    /\ in_file = [exists |-> FALSE, lines |-> <<>>]
    /\ out_file = NoOutFile
    /\ opened = FALSE
    /\ SECTION_WH = <<>>
    /\ units = MM
    /\ sections = <<>>
    /\ geometries = <<>>
    /\ summary = NoSummary
    /\ error = "none"
    /\ fpc = "start"
    /\ fvalue \in FormatValues
    /\ fforce \in BOOLEAN
    /\ ftext = <<>>
    /\ ftext2 = <<>>

FormatFirst ==
    /\ fpc = "start"
    /\ ftext' = format_coord(fvalue, fforce)
    /\ fpc' = "formatted"
    /\ UNCHANGED <<pvars, fvalue, fforce, ftext2>>

FormatAgain ==
    /\ fpc = "formatted"
    /\ ftext2' = format_coord(Float(ftext), fforce)
    /\ fpc' = "done"
    /\ UNCHANGED <<pvars, fvalue, fforce, ftext>>

NextFormat == FormatFirst \/ FormatAgain

SpecFormat == InitFormat /\ [][NextFormat]_vars

\* C6: numeric formatting is idempotent: reading format_coord(v, flag) back as
\* a number and formatting it again with the same flag gives the same text.
C6_FormatIdempotent == fpc = "done" => ftext2 = ftext


-----------------------------------------------------------------------------
(* Properties of the pipeline.                                             *)

\* The retained lines of the input file: stripped, blank ones left out.
NonBlank(s) == s # <<>>

Retained == SelectSeq([i \in 1..Len(in_file.lines) |-> Strip(in_file.lines[i])], NonBlank)

\* parse_wire_sections has returned.
Parsed ==
    \/ pc \in {"build", "open", "header", "nodes", "segments", "ports", "trailer", "done"}
    \/ pc = "failed" /\ error \notin {"MissingInput", "EmptyInput"}

\* build_section_geometries has returned its list.
Built == pc \in {"open", "header", "nodes", "segments", "ports", "trailer", "done"}

\* build_section_geometries has returned or raised.
BuildEnded == Built \/ (pc = "failed" /\ error \in {"TypeError", "InsufficientPoints", "NoSegments"})

UnitsSynonyms == MillimeterSynonyms \cup CentimeterSynonyms

FirstIsUnits == Retained # <<>> /\ StrLower(Retained[1]) \in UnitsSynonyms

\* A retained line that is a well-formed data line: at least 4 comma-separated
\* fields, the first starting with the section prefix, then numeric x, y, z.
WellFormed(line) ==
    LET f == Split(line, ",")
    IN  /\ Len(f) >= 4
        /\ StartsWith(Strip(f[1]), SectionPrefix)
        /\ \A k \in 2..4 : IsFloatLiteral(Strip(f[k]))

FieldOf(line, k) == Strip(Split(line, ",")[k])

\* The positions, among the retained lines, of the lines that gave a point.
PointLines ==
    UNION { {sections[i].pts[k].line : k \in 1..Len(sections[i].pts)}
            : i \in 1..Len(sections) }

UnitsAsDetected ==
    units = IF Retained # <<>> /\ StrLower(Retained[1]) \in CentimeterSynonyms
            THEN CM ELSE MM

AllNodeNames == [i \in 1..Len(all_nodes(geometries)) |-> all_nodes(geometries)[i].name]

\* C1: all node names emitted by build_section_geometries for one input are
\* pairwise distinct, whatever distinct section names the parser accepted.
C1_NodeNamesDistinct ==
    Built => \A i, j \in 1..Len(AllNodeNames) :
                 i # j => AllNodeNames[i] # AllNodeNames[j]

\* C2 as claimed: after a units line neither the first nor the second retained
\* line ever gives a point, whatever the file's length; without one, units is
\* MM and every retained line is taken as a data line.
C2_UnitsLineSkipsTwo ==
    (Parsed /\ Retained # <<>>) =>
        /\ UnitsAsDetected
        /\ IF FirstIsUnits
           THEN 1 \notin PointLines /\ 2 \notin PointLines
           ELSE \A i \in 1..Len(Retained) : WellFormed(Retained[i]) => i \in PointLines

\* C2 amended: after a units line the first retained line never gives a point,
\* and the second gives none when the file has at least 3 retained lines; with
\* 1 or 2 retained lines nothing is skipped and the second line is parsed as a
\* data line.  Without a units line, units is MM and every retained line is
\* taken as a data line.
C2_UnitsLineSkipsTwoUnlessShort ==
    (Parsed /\ Retained # <<>>) =>
        /\ UnitsAsDetected
        /\ IF FirstIsUnits /\ Len(Retained) >= 3
           THEN 1 \notin PointLines /\ 2 \notin PointLines
           ELSE /\ FirstIsUnits => 1 \notin PointLines
                /\ \A i \in 1..Len(Retained) : WellFormed(Retained[i]) => i \in PointLines

\* A units line, then a well-formed data line in the skipped second place,
\* then a data line that gave a point.
C2_Witness ==
    /\ Parsed
    /\ FirstIsUnits
    /\ Len(Retained) >= 3
    /\ WellFormed(Retained[2])
    /\ 2 \notin PointLines
    /\ 3 \in PointLines

\* The key the sort is specified with: the name split on its last hyphen,
\* (prefix, integer) or (prefix, suffix), or ("", name) without a hyphen.
SpecKey(name) ==
    IF Contains(name, "-")
    THEN LET sp == RSplit1(name, "-")
         IN  [prefix |-> sp[1], isint |-> IsIntLiteral(sp[2]),
              int |-> IF IsIntLiteral(sp[2]) THEN IntValue(sp[2]) ELSE 0,
              suffix |-> sp[2]]
    ELSE [prefix |-> <<>>, isint |-> FALSE, int |-> 0, suffix |-> name]

\* a may stand before b in the specified order (an integer and a
\* non-integer suffix under one prefix may stand either way).
SpecOrdered(a, b) ==
    LET ka == SpecKey(a)
        kb == SpecKey(b)
    IN  IF ka.prefix # kb.prefix THEN StrLess(ka.prefix, kb.prefix)
        ELSE IF ka.isint /\ kb.isint THEN ka.int <= kb.int
        ELSE IF ~ka.isint /\ ~kb.isint THEN ~StrLess(kb.suffix, ka.suffix)
        ELSE TRUE

SectionNames == {sections[i].name : i \in 1..Len(sections)}

\* C3: for every set of section names the parser accepted, the ordering step
\* completes, and the geometry list is the name set in the specified order.
C3_SortedByKey ==
    (BuildEnded /\ sections # <<>>) =>
        /\ error # "TypeError"
        /\ Built =>
            /\ {geometries[i].name : i \in 1..Len(geometries)} = SectionNames
            /\ Len(geometries) = Cardinality(SectionNames)
            /\ \A i \in 1..(Len(geometries) - 1) :
                   SpecOrdered(geometries[i].name, geometries[i + 1].name)


SectionOf(name) == sections[CHOOSE i \in 1..Len(sections) : sections[i].name = name]

RECURSIVE CountPoints(_)
CountPoints(secs) ==
    IF secs = <<>> THEN 0 ELSE Len(Head(secs).pts) + CountPoints(Tail(secs))

\* The number of lines of the deck with this card.
CountCard(card) ==
    Cardinality({i \in 1..Len(out_file.data) : out_file.data[i].card = card})

CountsAgree ==
    /\ CountCard("external") = Len(geometries)
    /\ Len(geometries) = Len(sections)
    /\ \A i \in 1..Len(geometries) :
           Len(geometries[i].segments) = Len(SectionOf(geometries[i].name).pts) - 1
    /\ CountCard("node") = CountPoints(sections)
    /\ summary = [sections |-> Len(geometries), nodes |-> CountCard("node"),
                  segments |-> CountCard("segment"), ports |-> CountCard("external")]

FatalConditions ==
    {"MissingInput", "EmptyInput", "NoSections", "InsufficientPoints", "NoSegments"}

UnitsOnlyFile == Len(Retained) = 1 /\ FirstIsUnits

\* C5: a run that ends in MissingInput, EmptyInput, NoSections,
\* InsufficientPoints or NoSegments fails before the output file is opened, so
\* the file is neither created nor truncated nor written; a file of only a
\* units line fails with NoSections.
C5_NoOutputOnFatal ==
    /\ [](error \in FatalConditions => ~opened)
    /\ [][opened => opened']_vars
    /\ [][~opened' => out_file' = out_file]_vars
    /\ []((pc \in {"failed", "done"} /\ in_file.exists /\ UnitsOnlyFile)
            => error = "NoSections")

\* A file of only a units line has failed, the deck of an earlier run in place.
C5_Witness ==
    /\ pc = "failed"
    /\ error = "NoSections"
    /\ UnitsOnlyFile
    /\ out_file.exists
    /\ out_file.data # <<>>

\* The lines skipped as header, among the retained lines R: two when the file
\* starts with a units line and has at least 3 retained lines.
SkippedLines(R) ==
    IF R # <<>> /\ StrLower(R[1]) \in UnitsSynonyms /\ Len(R) >= 3 THEN 2 ELSE 0

\* The positions in R of the non-skipped well-formed lines of this name.
AcceptedLines(R, name) ==
    {i \in (SkippedLines(R) + 1)..Len(R) : WellFormed(R[i]) /\ FieldOf(R[i], 1) = name}

\* C7: with a non-blank line in the file the parser does not fail; the points
\* of each section are, in file order, the non-skipped well-formed lines of
\* that name and no others; indices run 1..n; source_line is the position of
\* the line among the retained lines.
C7_LenientParse ==
    (pc \notin {"start", "parse"} /\ in_file.exists) =>
        LET R == Retained
        IN  R # <<>> =>
            /\ Parsed
            /\ \A i, j \in 1..Len(sections) :
                   i # j => sections[i].name # sections[j].name
            /\ \A n \in (SkippedLines(R) + 1)..Len(R) :
                   WellFormed(R[n]) => FieldOf(R[n], 1) \in SectionNames
            /\ \A i \in 1..Len(sections) :
                   LET s == sections[i]
                       A == AcceptedLines(R, s.name)
                   IN  /\ Len(s.pts) = Cardinality(A)
                       /\ \A k \in 1..Len(s.pts) :
                              /\ s.pts[k].idx = k
                              /\ s.pts[k].line \in A
                              /\ k > 1 => s.pts[k - 1].line < s.pts[k].line
                              /\ s.pts[k].x = Float(FieldOf(R[s.pts[k].line], 2))
                              /\ s.pts[k].y = Float(FieldOf(R[s.pts[k].line], 3))
                              /\ s.pts[k].z = Float(FieldOf(R[s.pts[k].line], 4))

\* A section of two points whose lines are apart from each other, after a
\* blank raw line: malformed or foreign lines lie between and before them.
C7_Witness ==
    /\ Parsed
    /\ Len(Retained) < Len(in_file.lines)
    /\ \E i \in 1..Len(sections) :
           /\ Len(sections[i].pts) = 2
           /\ sections[i].pts[2].line > sections[i].pts[1].line + 1
    /\ \E n \in 1..Len(Retained) : ~WellFormed(Retained[n])

HasOverride(name) == \E i \in 1..Len(SECTION_WH) : SECTION_WH[i].name = name

\* C8: every SectionGeometry is a chain over its section's points in parse
\* order: node k is the node of point k, segment k joins node k to node k+1
\* with the section's override if the table has one, else the defaults, and
\* the port is (first node, last node).
C8_Chain ==
    Built => \A i \in 1..Len(geometries) :
        LET g == geometries[i]
            s == SectionOf(g.name)
            n == Len(s.pts)
        IN  /\ Len(g.nodes) = n
            /\ \A k \in 1..n :
                   /\ s.pts[k].idx = k
                   /\ k > 1 => s.pts[k - 1].line < s.pts[k].line
                   /\ g.nodes[k] = [name |-> make_node_name(g.name, k),
                                    x |-> s.pts[k].x, y |-> s.pts[k].y, z |-> s.pts[k].z]
            /\ Len(g.segments) = n - 1
            /\ \A k \in 1..(n - 1) :
                   /\ g.segments[k].start = g.nodes[k].name
                   /\ g.segments[k].end = g.nodes[k + 1].name
                   /\ IF HasOverride(g.name)
                      THEN \E e \in 1..Len(SECTION_WH) :
                               /\ SECTION_WH[e].name = g.name
                               /\ g.segments[k].w = SECTION_WH[e].w
                               /\ g.segments[k].h = SECTION_WH[e].h
                      ELSE /\ g.segments[k].w = Args.trace_width
                           /\ g.segments[k].h = Args.trace_thickness
            /\ g.port = <<g.nodes[1].name, g.nodes[n].name>>

\* A chain of at least two segments whose section has an override in the table.
C8_Witness ==
    /\ Built
    /\ \E i \in 1..Len(geometries) :
           Len(geometries[i].segments) >= 2 /\ HasOverride(geometries[i].name)

\* C9: the build fails with InsufficientPoints whenever a section has fewer
\* than 2 points, every returned SectionGeometry has at least 2 nodes and 1
\* segment, and NoSegments is raised only for a mapping without sections.
C9_StrictPolicy ==
    BuildEnded =>
        /\ (\E i \in 1..Len(sections) : Len(sections[i].pts) < 2)
               => error = "InsufficientPoints"
        /\ Built => \A i \in 1..Len(geometries) :
               Len(geometries[i].nodes) >= 2 /\ Len(geometries[i].segments) >= 1
        /\ error = "NoSegments" => sections = <<>>

IsDirective(line) == line.card \notin {"comment", "blank"}

Directives == SelectSeq(out_file.data, IsDirective)

\* C10: a written deck is the banner, .units, .default, all node lines, all
\* segment lines, all .external lines, .freq and .end as the last line; node,
\* segment and port lines stand in section processing order and, within a
\* section, in point order; every line ends with CR LF.
C10_CardOrder ==
    pc = "done" =>
        LET d == out_file.data
            D == Directives
            nodes == all_nodes(geometries)
            segs == all_segments(geometries)
            nn == Len(nodes)
            ns == Len(segs)
            np == Len(geometries)
            order == SortedSections(sections)
        IN  /\ d[1].card = "comment"
            /\ d[1].text = "* FastHenry input file created using FreeCAD's ElectroMagnetic Workbench"
            /\ d[Len(d)].card = "end"
            /\ Len(D) = nn + ns + np + 4
            /\ D[1].card = "units" /\ D[1].fields = <<StrLower(units)>>
            /\ D[2].card = "default"
            /\ [i \in 1..np |-> geometries[i].name] = [i \in 1..Len(order) |-> order[i].name]
            /\ \A k \in 1..nn :
                   /\ D[2 + k].card = "node"
                   /\ D[2 + k].fields =
                          <<nodes[k].name, format_coord(nodes[k].x, TRUE),
                            format_coord(nodes[k].y, TRUE), format_coord(nodes[k].z, TRUE)>>
            /\ \A k \in 1..ns :
                   /\ D[2 + nn + k].card = "segment"
                   /\ D[2 + nn + k].fields[2] = segs[k].start
                   /\ D[2 + nn + k].fields[3] = segs[k].end
            /\ \A k \in 1..np :
                   /\ D[2 + nn + ns + k].card = "external"
                   /\ D[2 + nn + ns + k].fields = geometries[k].port
            /\ D[nn + ns + np + 3].card = "freq"
            /\ D[nn + ns + np + 4].card = "end"
            /\ \A i \in 1..Len(d) : d[i].eol = "\r\n"

\* A deck of two sections, which the sort has put in another order than the file.
C10_Witness ==
    /\ pc = "done"
    /\ Len(geometries) = 2
    /\ geometries[1].name = sections[2].name

IsSegmentCard(line) == line.card = "segment"

\* The segment lines of the output file, in the order they were written.
SegmentCards == SelectSeq(out_file.data, IsSegmentCard)

\* The number of digits of n >= 1 written without padding.
RECURSIVE DigitCount(_)
DigitCount(n) == IF n < 10 THEN 1 ELSE 1 + DigitCount(n \div 10)

\* name is the element name the specification gives the segment at 0-based
\* position i: bare at 0, else EFHSegment and i in decimal, padded with
\* zeros to three digits and never beyond what i needs.
NamedByPosition(name, i) ==
    IF i = 0 THEN name = EFHSegment
    ELSE /\ Len(name) > Len(EFHSegment)
         /\ SubSeq(name, 1, Len(EFHSegment)) = EFHSegment
         /\ LET suffix == SubSeq(name, Len(EFHSegment) + 1, Len(name))
            IN  /\ AllDigits(suffix)
                /\ StrToNat(suffix) = i
                /\ Len(suffix) = IF DigitCount(i) > 3 THEN DigitCount(i) ELSE 3

\* The number of segments of the sections before section s.
RECURSIVE SegmentsBefore(_)
SegmentsBefore(s) ==
    IF s = 1 THEN 0 ELSE SegmentsBefore(s - 1) + Len(geometries[s - 1].segments)

\* C11: one counter runs over the segments of the whole deck: the segment
\* lines written are those of all sections in processing order, the first is
\* named EFHSegment, the one at 0-based position i > 0 is named EFHSegment
\* followed by i zero-padded to at least three digits, whichever section it
\* belongs to, and the names of one deck are pairwise distinct.
C11_OneCounterNames ==
    LET S == SegmentCards
    IN  /\ \A k \in 1..Len(S) : NamedByPosition(S[k].fields[1], k - 1)
        /\ \A k1, k2 \in 1..Len(S) : k1 # k2 => S[k1].fields[1] # S[k2].fields[1]
        /\ pc \in {"ports", "trailer", "done"} =>
               /\ Len(S) = SegmentsBefore(Len(geometries) + 1)
               /\ \A s \in 1..Len(geometries) :
                      \A j \in 1..Len(geometries[s].segments) :
                          LET card == S[SegmentsBefore(s) + j]
                          IN  /\ card.fields[2] = geometries[s].segments[j].start
                              /\ card.fields[3] = geometries[s].segments[j].end
                              /\ NamedByPosition(card.fields[1],
                                                 SegmentsBefore(s) + j - 1)

\* The segment lines of a deck of two sections have been written, so the
\* first segment of the second section is not the first segment of the deck.
C11_Witness ==
    /\ pc \in {"ports", "trailer", "done"}
    /\ Len(geometries) = 2
    /\ Len(SegmentCards) = 2
    /\ SegmentCards[2].fields[2] = geometries[2].segments[1].start
    /\ SegmentCards[2].fields[1] = EFHSegment \o <<"0", "0", "1">>

====
